---- MODULE Spec2Model ----
(***************************************************************************)
(* A model of the jdbc-mcp-server database adapters: the query safety gate *)
(* and parameter sanitizer of DatabaseAdapter (database/base.py), the      *)
(* connection scopes and driver calls of the four concrete adapters        *)
(* (database/postgresql.py, mysql.py, sqlite.py, db2.py), the error        *)
(* classifier (errors.py), the value serializer (utils.py), and lifespan   *)
(* with the tools it serves (server.py).                                   *)
(*                                                                         *)
(* Query text is a sequence of symbols.  A symbol is one character         *)
(* (" ", tab, newline, ";", "-", "/", "*", "(", ")") or one run of letters *)
(* (a keyword in some letter case, or the identifier "x").  Adjacent letter*)
(* symbols abut without a separator, so <<"DROP", "x">> is the text        *)
(* "DROPx".                                                                *)
(***************************************************************************)
EXTENDS Integers, Sequences, FiniteSets, TLC

VARIABLES
    gate_query,     \* the text handed to _validate_query_safety
    gate_ro,        \* self.read_only of the adapter validating it
    gate_result,    \* what _validate_query_safety did with it
    san_value,      \* the value handed to _sanitize_parameter
    san_result,     \* what _sanitize_parameter did with it
    driver_type,    \* which adapter class the adapter under study is
    read_only,      \* its self.read_only
    pool,           \* its pool: 0 for None, else the pool (db2: len(_connections))
    checked_out,    \* connections out of the pool, or open SQLite handles
    pc,             \* where the call in flight stands
    call,           \* the call in flight, or the last one
    conn,           \* conn of get_connection: TRUE while the scope holds one
    err,            \* the exception travelling up, if any
    driver_log,     \* what the call has asked of the backend driver, in order
    outcome,        \* what the last finished call gave its caller
    result,         \* the value the call returns, once it has one
    written,        \* what became of the rows the call's statement has written
    map_error,      \* str(error) of the exception handed to map_driver_error
    map_driver,     \* the driver_type handed to map_driver_error
    map_result,     \* what map_driver_error returned
    config,         \* config.databases of lifespan, in iteration order
    adapters,       \* the global dict adapters: its keys, in insertion order
    life_pc,        \* where lifespan stands
    life_i,         \* the position of lifespan's loop in config / in adapters
    initialized_ok, \* the names whose adapter.initialize() has returned
    close_calls,    \* per name, how often adapter.close() was called
    logged,         \* the names with a logged "Error closing adapter"
    tool_pc,        \* where the tool call in flight stands
    tool_call,      \* the tool call in flight, or the last one
    tool_result,    \* what the last finished tool call gave the dispatcher
    tasks,          \* the coroutines on the event loop: what each runs and where it stands
    objs,           \* the adapter objects they work on: class and connection list
    loop_owner      \* the task the event loop's thread is running, 0 when it runs none

gateVars == <<gate_query, gate_ro, gate_result>>
sanVars == <<san_value, san_result>>
adapterVars == <<driver_type, read_only, pool, checked_out, pc, call, conn,
                 err, driver_log, outcome, result, written>>
mapVars == <<map_error, map_driver, map_result>>
serverVars == <<config, adapters, life_pc, life_i, initialized_ok, close_calls,
                logged, tool_pc, tool_call, tool_result>>
taskVars == <<tasks, objs, loop_owner>>
vars == <<gateVars, sanVars, adapterVars, mapVars, serverVars, taskVars>>

\* ------------------------------------------------------------------ bounds
MaxQueryLen == 3
MaxRuns == 2
MaxParams == 1
PoolSize == 2
MaxPhrases == 2
MaxDatabases == 2
MaxTasks == 2

\* ------------------------------------------------------------------ text
TAB == "\t"
NL == "\n"

\* base.py:212-215
dangerous_keywords ==
    <<"INSERT", "UPDATE", "DELETE", "DROP", "CREATE", "ALTER",
      "TRUNCATE", "GRANT", "REVOKE", "EXEC", "EXECUTE">>

DangerousSet == {dangerous_keywords[i] : i \in DOMAIN dangerous_keywords}

\* str.upper() on one symbol
Upper(s) ==
    CASE s = "insert" -> "INSERT"
      [] s = "update" -> "UPDATE"
      [] s = "delete" -> "DELETE"
      [] s = "drop" -> "DROP"
      [] s = "create" -> "CREATE"
      [] s = "alter" -> "ALTER"
      [] s = "truncate" -> "TRUNCATE"
      [] s = "grant" -> "GRANT"
      [] s = "revoke" -> "REVOKE"
      [] s = "exec" -> "EXEC"
      [] s = "execute" -> "EXECUTE"
      [] s = "select" -> "SELECT"
      [] s = "with" -> "WITH"
      [] s = "as" -> "AS"
      [] s = "x" -> "X"
      [] OTHER -> s

\* the lower-case spelling of a keyword, as a caller may type it
Lower(k) ==
    CASE k = "INSERT" -> "insert"
      [] k = "UPDATE" -> "update"
      [] k = "DELETE" -> "delete"
      [] k = "DROP" -> "drop"
      [] k = "CREATE" -> "create"
      [] k = "ALTER" -> "alter"
      [] k = "TRUNCATE" -> "truncate"
      [] k = "GRANT" -> "grant"
      [] k = "REVOKE" -> "revoke"
      [] k = "EXEC" -> "exec"
      [] k = "EXECUTE" -> "execute"
      [] OTHER -> k

\* query.upper()
UpperText(q) == [i \in 1..Len(q) |-> Upper(q[i])]

WhitespaceSyms == {" ", TAB, NL}
BaseSyms == {" ", TAB, NL, ";", "-", "/", "*", "SELECT", "x"}
IsWordSym(s) == s \notin {" ", TAB, NL, ";", "-", "/", "*", "(", ")"}

\* needle in hay (Python's `in` on str)
Contains(hay, needle) ==
    \E i \in 1..(Len(hay) - Len(needle) + 1) :
        \A j \in 1..Len(needle) : hay[i + j - 1] = needle[j]

\* str.strip()
RECURSIVE LStrip(_)
LStrip(q) ==
    IF q # <<>> /\ Head(q) \in WhitespaceSyms THEN LStrip(Tail(q)) ELSE q

RECURSIVE RStrip(_)
RStrip(q) ==
    IF q # <<>> /\ q[Len(q)] \in WhitespaceSyms
    THEN RStrip(SubSeq(q, 1, Len(q) - 1))
    ELSE q

strip(q) == RStrip(LStrip(q))

\* ------------------------------------------------------------------ sqlparse
(***************************************************************************)
(* sqlparse.parse as base.py:190 uses it: the lexer, then the statement    *)
(* splitter.  The texts carry no BEGIN/END/DECLARE and no ";" between      *)
(* parentheses, so every ";" outside a comment stands at the splitter's    *)
(* nesting level 0 and ends a statement.  Modelled on sqlparse 0.4/0.5: a  *)
(* newline after ";" opens a new statement, and a trailing statement made  *)
(* of whitespace only is dropped.                                          *)
(***************************************************************************)
RECURSIVE WordEnd(_, _)
WordEnd(q, i) ==
    IF i < Len(q) /\ IsWordSym(q[i + 1]) THEN WordEnd(q, i + 1) ELSE i

\* '(--|# ).*?(\r\n|\r|\n|$)': the comment runs to the first newline or the end
RECURSIVE LineCommentEnd(_, _)
LineCommentEnd(q, j) ==
    IF j >= Len(q) THEN Len(q)
    ELSE IF q[j] = NL THEN j
    ELSE LineCommentEnd(q, j + 1)

\* '/\*[\s\S]*?\*/': positions of a closing "*/" after the opener at i
BlockCloses(q, i) ==
    {j \in (i + 2)..(Len(q) - 1) : q[j] = "*" /\ q[j + 1] = "/"}

MinOf(S) == CHOOSE m \in S : \A n \in S : m <= n

\* keywords.py: the token type of one word
KeywordType(u) ==
    CASE u \in {"SELECT", "INSERT", "UPDATE", "DELETE"} -> "DML"
      [] u \in {"DROP", "CREATE", "ALTER"} -> "DDL"
      [] u \in {"GRANT", "REVOKE"} -> "DCL"
      [] u \in {"EXEC", "EXECUTE", "TRUNCATE", "AS"} -> "Keyword"
      [] u = "WITH" -> "CTE"
      [] OTHER -> "Name"

Tok(t, v) == [ttype |-> t, value |-> v]

RECURSIVE Lex(_, _)
Lex(q, i) ==
    IF i > Len(q) THEN <<>>
    ELSE IF q[i] = "-" /\ i < Len(q) /\ q[i + 1] = "-"
    THEN <<Tok("Comment.Single", "--")>> \o Lex(q, LineCommentEnd(q, i + 2) + 1)
    ELSE IF q[i] = "/" /\ i < Len(q) /\ q[i + 1] = "*" /\ BlockCloses(q, i) # {}
    THEN <<Tok("Comment.Multiline", "/*")>> \o Lex(q, MinOf(BlockCloses(q, i)) + 2)
    ELSE IF q[i] = NL THEN <<Tok("Newline", NL)>> \o Lex(q, i + 1)
    ELSE IF q[i] \in {" ", TAB} THEN <<Tok("Whitespace", q[i])>> \o Lex(q, i + 1)
    ELSE IF q[i] \in {";", "(", ")"} THEN <<Tok("Punctuation", q[i])>> \o Lex(q, i + 1)
    ELSE IF IsWordSym(q[i])
    THEN LET e == WordEnd(q, i)
             t == IF e = i THEN Tok(KeywordType(Upper(q[i])), Upper(q[i]))
                  ELSE Tok("Name", "word")
         IN  <<t>> \o Lex(q, e + 1)
    ELSE <<Tok("Operator", q[i])>> \o Lex(q, i + 1)

\* Token.is_whitespace
IsWhitespaceTok(t) == t.ttype \in {"Whitespace", "Newline"}

\* statement_splitter.py: EOS_TTYPE = (T.Whitespace, T.Comment.Single)
EOS_TTYPE == {"Whitespace", "Comment.Single"}

\* StatementSplitter.process
RECURSIVE SplitRun(_, _, _, _, _)
SplitRun(toks, i, cur, consume_ws, out) ==
    IF i > Len(toks)
    THEN IF cur # <<>> /\ ~(\A k \in 1..Len(cur) : IsWhitespaceTok(cur[k]))
         THEN Append(out, cur)
         ELSE out
    ELSE LET t == toks[i]
             flush == consume_ws /\ t.ttype \notin EOS_TTYPE
             out1 == IF flush THEN Append(out, cur) ELSE out
             cur1 == Append(IF flush THEN <<>> ELSE cur, t)
             cons1 == IF t.ttype = "Punctuation" /\ t.value = ";" THEN TRUE
                      ELSE IF flush THEN FALSE
                      ELSE consume_ws
         IN  SplitRun(toks, i + 1, cur1, cons1, out1)

\* sqlparse.parse(query): the statements, each a sequence of tokens
parse(query) == SplitRun(Lex(query, 1), 1, <<>>, FALSE, <<>>)

\* Statement.token_first(skip_cm=True): first token that is neither
\* whitespace nor a comment; 0 when there is none
SkippedTok(t) ==
    t.ttype \in {"Whitespace", "Newline", "Comment.Single", "Comment.Multiline"}

token_first(stmt) ==
    LET idx == {k \in 1..Len(stmt) : ~SkippedTok(stmt[k])}
    IN  IF idx = {} THEN 0 ELSE MinOf(idx)

\* Statement.get_type(): the first token's keyword when it is DML or DDL;
\* after WITH, the DML keyword that follows the identifier of the common
\* table expression, which the grouping has joined with its "AS ( ... )"
get_type(stmt) ==
    LET k == token_first(stmt)
        \* token_next(idx, skip_ws=True)
        token_next(idx) ==
            LET later == {j \in (idx + 1)..Len(stmt) : ~IsWhitespaceTok(stmt[j])}
            IN  IF idx = 0 \/ later = {} THEN 0 ELSE MinOf(later)
        \* the ")" that closes the parenthesis open before position j
        RECURSIVE Closing(_, _)
        Closing(j, depth) ==
            IF j > Len(stmt) THEN 0
            ELSE IF stmt[j].value = "(" THEN Closing(j + 1, depth + 1)
            ELSE IF stmt[j].value = ")"
            THEN IF depth = 1 THEN j ELSE Closing(j + 1, depth - 1)
            ELSE Closing(j + 1, depth)
    IN  IF k = 0 THEN "UNKNOWN"
        ELSE IF stmt[k].ttype \in {"DML", "DDL"} THEN stmt[k].value
        ELSE IF stmt[k].ttype = "CTE"
        THEN LET name == token_next(k)
                 as == token_next(name)
                 open == token_next(as)
                 aliased == /\ open # 0
                            /\ stmt[as].value = "AS"
                            /\ stmt[open].value = "("
                            /\ Closing(open + 1, 1) # 0
                 dml_keyword == token_next(IF aliased THEN Closing(open + 1, 1) ELSE name)
             IN  IF name # 0 /\ stmt[name].ttype = "Name"
                    /\ dml_keyword # 0 /\ stmt[dml_keyword].ttype = "DML"
                 THEN stmt[dml_keyword].value
                 ELSE "UNKNOWN"
        ELSE "UNKNOWN"

\* ------------------------------------------------------------------ Safety Gate
NotRun == [category |-> "none", check |-> "none", keyword |-> ""]
Passed == [category |-> "ok", check |-> "none", keyword |-> ""]
ValidationError(c) == [category |-> "validation_error", check |-> c, keyword |-> ""]
SecurityError(c, k) == [category |-> "security_error", check |-> c, keyword |-> k]

\* base.py:185  `not query or not query.strip()`
IsEmptyQuery_OnlyEmpty(query) == query = <<>>
IsEmptyQuery(query) == query = <<>> \/ strip(query) = <<>>

\* base.py:198  `len(parsed) > 1`
IsMultiStatement_OffByOne(parsed) == Len(parsed) > 2
IsMultiStatement(parsed) == Len(parsed) > 1

\* base.py:205  `'--' in query or '/*' in query`
HasComment_LineOnly(query) == Contains(query, <<"-", "-">>)
HasComment(query) ==
    Contains(query, <<"-", "-">>) \/ Contains(query, <<"/", "*">>)

\* base.py:220  `f' {keyword} ' in f' {query_upper} '`
KeywordHit_AnyWhitespace(keyword, query_upper) ==
    \E i \in 1..Len(query_upper) :
        /\ query_upper[i] = keyword
        /\ (i = 1 \/ query_upper[i - 1] \in WhitespaceSyms)
        /\ (i = Len(query_upper) \/ query_upper[i + 1] \in WhitespaceSyms)
KeywordHit(keyword, query_upper) ==
    Contains(<<" ">> \o query_upper \o <<" ">>, <<" ", keyword, " ">>)

\* base.py:217-224  the first keyword of the list that hits, 0 when none does
FirstKeywordHit(query) ==
    LET query_upper == UpperText(query)
        hits == {i \in DOMAIN dangerous_keywords :
                    KeywordHit(dangerous_keywords[i], query_upper)}
    IN  IF hits = {} THEN 0 ELSE MinOf(hits)

\* base.py:211  `if self.read_only:`
ReadOnlyChecksApply_Always(ro) == TRUE
ReadOnlyChecksApply(ro) == ro

\* base.py:175-233
_validate_query_safety(query, ro) ==
    IF IsEmptyQuery(query) THEN ValidationError("empty")
    ELSE LET parsed == parse(query)
         IN  IF parsed = <<>> THEN ValidationError("unparsed")
             ELSE IF IsMultiStatement(parsed) THEN SecurityError("multi", "")
             ELSE IF HasComment(query) THEN SecurityError("comment", "")
             ELSE IF ReadOnlyChecksApply(ro)
             THEN LET h == FirstKeywordHit(query)
                      stmt_type == get_type(parsed[1])
                  IN  IF h # 0 THEN SecurityError("keyword", dangerous_keywords[h])
                      ELSE IF stmt_type # "" /\ stmt_type \notin {"SELECT", "UNKNOWN"}
                      THEN SecurityError("type", stmt_type)
                      ELSE Passed
             ELSE Passed

\* ------------------------------------------------------------------ errors
(***************************************************************************)
(* An exception is a record.  text is the set of the classifier's phrases  *)
(* that occur in str(error).lower().                                       *)
(***************************************************************************)
NoError == [kind |-> "none", category |-> "none", recoverable |-> FALSE, text |-> {}]
DriverError(t) ==
    [kind |-> "driver", category |-> "none", recoverable |-> FALSE, text |-> t]
DatabaseError(c, r, t) ==
    [kind |-> "database", category |-> c, recoverable |-> r, text |-> t]
\* an exception that is neither a DatabaseError nor of the driver's Error
\* class: the ValueError, TypeError, IndexError or OverflowError a driver
\* raises while it binds parameters, or a defect of the calling code
PythonError(t) ==
    [kind |-> "python", category |-> "none", recoverable |-> FALSE, text |-> t]

\* errors.py:64-144
ConnectionError(t) == DatabaseError("connection_error", TRUE, t)
AuthenticationError(t) == DatabaseError("authentication_error", FALSE, t)
QueryError(t) == DatabaseError("query_error", FALSE, t)
NotFoundError(t) == DatabaseError("not_found_error", FALSE, t)
GateError(c) == DatabaseError(c, FALSE, {})

\* str.lower() on one phrase of an error text
lower_Unchanged(s) == s
lower(s) ==
    CASE s = "Connection refused" -> "connection refused"
      [] s = "Access denied" -> "access denied"
      [] s = "Unknown database" -> "unknown database"
      [] s = "Can't connect" -> "can't connect"
      [] s = "SQL0204N" -> "sql0204n"
      [] s = "SQL30081N" -> "sql30081n"
      [] s = "SQL30082N" -> "sql30082n"
      [] OTHER -> s

\* errors.py:147-241
map_driver_error(error, driver) ==
    LET error_str == {lower(s) : s \in error.text}
    IN  CASE driver = "postgresql" /\ "connection refused" \in error_str
               -> ConnectionError({})
          [] driver = "postgresql" /\ "connection refused" \notin error_str
               /\ "authentication failed" \in error_str
               -> AuthenticationError({"database"})
          [] driver = "postgresql" /\ "connection refused" \notin error_str
               /\ "authentication failed" \notin error_str
               /\ "does not exist" \in error_str
               -> NotFoundError({"database", "does not exist"})
          [] driver = "mysql" /\ "access denied" \in error_str
               -> AuthenticationError({"access denied"})
          [] driver = "mysql" /\ "access denied" \notin error_str
               /\ "unknown database" \in error_str
               -> NotFoundError({"database", "does not exist"})
          [] driver = "mysql" /\ "access denied" \notin error_str
               /\ "unknown database" \notin error_str
               /\ ("can't connect" \in error_str \/ "connection refused" \in error_str)
               -> ConnectionError({})
          [] driver = "sqlite" /\ "no such table" \in error_str
               -> NotFoundError({"database", "does not exist"})
          [] driver = "sqlite" /\ "no such table" \notin error_str
               /\ "database is locked" \in error_str
               -> ConnectionError({"database", "database is locked"})
          [] driver = "sqlite" /\ "no such table" \notin error_str
               /\ "database is locked" \notin error_str
               /\ "unable to open database file" \in error_str
               -> ConnectionError({"database"})
          [] driver = "db2" /\ "sql0204n" \in error_str
               -> NotFoundError({"database"})
          [] driver = "db2" /\ "sql0204n" \notin error_str
               /\ "sql30081n" \in error_str
               -> ConnectionError({})
          [] driver = "db2" /\ "sql0204n" \notin error_str
               /\ "sql30081n" \notin error_str
               /\ "sql30082n" \in error_str
               -> AuthenticationError({"authentication failed"})
          [] OTHER -> QueryError(error_str \cup {"database"})

\* ------------------------------------------------------------------ Parameter Sanitizer
(***************************************************************************)
(* A parameter value is None, a number, or a text.  A text is a sequence   *)
(* of runs, each run n copies of one character ("a" or NUL), so that texts *)
(* around the 10,000-character ceiling stay small values.                  *)
(***************************************************************************)
NUL == "NUL"
MAX_PARAM_LENGTH == 10000

NoneValue == [kind |-> "none", runs |-> <<>>, num |-> 0]
NumValue(n) == [kind |-> "num", runs |-> <<>>, num |-> n]
StrValue(r) == [kind |-> "str", runs |-> r, num |-> 0]

\* len(value)
RECURSIVE TextLen(_)
TextLen(runs) ==
    IF runs = <<>> THEN 0 ELSE Head(runs).n + TextLen(Tail(runs))

\* base.py:253  value.replace('\x00', '')
RECURSIVE RemoveNul(_)
RemoveNul(runs) ==
    IF runs = <<>> THEN <<>>
    ELSE IF Head(runs).ch = NUL THEN RemoveNul(Tail(runs))
    ELSE <<Head(runs)>> \o RemoveNul(Tail(runs))

NotSanitized == [status |-> "none", value |-> NoneValue]
Accepted(v) == [status |-> "ok", value |-> v]
Rejected(c) == [status |-> c, value |-> NoneValue]

\* the sanitizer with the length measured on the text as submitted
_sanitize_parameter_LengthFirst(value) ==
    IF value.kind = "none" THEN Accepted(NoneValue)
    ELSE IF value.kind = "str"
    THEN IF TextLen(value.runs) > MAX_PARAM_LENGTH
         THEN Rejected("validation_error")
         ELSE Accepted(StrValue(RemoveNul(value.runs)))
    ELSE Accepted(value)

\* base.py:235-261
_sanitize_parameter(value) ==
    IF value.kind = "none" THEN Accepted(NoneValue)
    ELSE IF value.kind = "str"
    THEN LET stripped == RemoveNul(value.runs)
         IN  IF TextLen(stripped) > MAX_PARAM_LENGTH
             THEN Rejected("validation_error")
             ELSE Accepted(StrValue(stripped))
    ELSE Accepted(value)

\* a parameter tuple as a caller passes it: None, or a tuple of values
NoParams == [given |-> FALSE, vals |-> <<>>]
Params(vs) == [given |-> TRUE, vals |-> vs]

\* base.py:263-276
_sanitize_parameters(parameters) ==
    IF ~parameters.given \/ parameters.vals = <<>>
    THEN [status |-> "ok", value |-> NoParams]
    ELSE LET each == [i \in 1..Len(parameters.vals) |->
                        _sanitize_parameter(parameters.vals[i])]
         IN  IF \E i \in 1..Len(each) : each[i].status # "ok"
             THEN [status |-> "validation_error", value |-> NoParams]
             ELSE [status |-> "ok",
                   value |-> Params([i \in 1..Len(each) |-> each[i].value])]

\* ------------------------------------------------------------------ Value Serializer
(***************************************************************************)
(* A value of a backend row is a record of its Python type and its         *)
(* content.  The content of a Decimal is its digits, of a date, time or    *)
(* datetime its ISO-8601 text, of bytes or a memoryview "ab" (two ASCII    *)
(* bytes) or "xFF" (the one byte 0xFF, which is no UTF-8).                 *)
(***************************************************************************)
Value(t, v) == [type |-> t, val |-> v]

RawValues ==
    {Value("NoneType", ""), Value("int", "1"), Value("str", "a"),
     Value("Decimal", "12.50"), Value("date", "2024-01-01"),
     Value("datetime", "2024-01-01T10:30:00"), Value("time", "10:30:00"),
     Value("bytes", "ab"), Value("bytes", "xFF"),
     Value("memoryview", "ab"), Value("memoryview", "xFF")}

\* utils.py:25  float(value), written as Python prints the float
float(digits) == IF digits = "12.50" THEN "12.5" ELSE digits

\* utils.py:37-40, 44-47  decode('utf-8'), on UnicodeDecodeError
\* decode('latin-1', errors='replace'): byte 0xFF becomes U+00FF
decode(bytes) == IF bytes = "xFF" THEN "U+00FF" ELSE bytes

\* utils.py:10-49
serialize_value_Unchanged(value) == value
serialize_value(value) ==
    CASE value.type = "NoneType" -> value
      [] value.type = "Decimal" -> Value("float", float(value.val))
      [] value.type \in {"date", "datetime"} -> Value("str", value.val)
      [] value.type = "time" -> Value("str", value.val)
      [] value.type = "bytes" -> Value("str", decode(value.val))
      [] value.type = "memoryview" -> Value("str", decode(value.val))
      [] OTHER -> value

\* one entry of the dict of a row
Item(col, v) == [col |-> col, val |-> v]

\* d[col] = v on a dict kept as its items in insertion order
DictSet(items, col, v) ==
    IF \E i \in 1..Len(items) : items[i].col = col
    THEN [i \in 1..Len(items) |->
            IF items[i].col = col THEN Item(col, v) ELSE items[i]]
    ELSE Append(items, Item(col, v))

\* utils.py:52-66  {col: serialize_value(val) for col, val in zip(columns, row)}
RECURSIVE serialize_row(_, _)
serialize_row(row, columns) ==
    IF row = <<>> \/ columns = <<>> THEN <<>>
    ELSE LET n == MinOf({Len(row), Len(columns)})
         IN  DictSet(serialize_row(SubSeq(row, 1, n - 1), SubSeq(columns, 1, n - 1)),
                     columns[n], serialize_value(row[n]))

\* ------------------------------------------------------------------ adapters
(***************************************************************************)
(* One adapter object, of one of the four classes.  A call runs as the     *)
(* steps its code takes between two requests to the backend driver; the    *)
(* event loop runs one call at a time, the adapters' coroutines never      *)
(* await anything that suspends.                                           *)
(***************************************************************************)
Adapters == {"postgresql", "mysql", "sqlite", "db2"}

\* postgresql.py:68, mysql.py:126, db2.py:76: get_connection refuses to
\* start without a pool; sqlite.py:67-70 has no pool to check
ChecksPool(d) == d \in {"postgresql", "mysql", "db2"}

\* postgresql.py:73 getconn, mysql.py:131 get_connection, sqlite.py:70
\* connect; db2.py:80 takes self._connections[0] without asking the driver
AcquireCallsDriver(d) == d \in {"postgresql", "mysql", "sqlite"}

\* postgresql.py:96-98 and mysql.py:154-155 mark the session read-only;
\* sqlite.py:92-99 and db2.py:100-109 execute the statement at once
MarksReadOnly(d) == d \in {"postgresql", "mysql"}

\* the finally clause of get_connection: postgresql.py:77-79, mysql.py:135-137,
\* sqlite.py:75-77; db2.py:84-87 has none
ReleasesConn_OnSuccessOnly(d, e) == d # "db2" /\ e = NoError
ReleasesConn(d, e) == d # "db2"

\* an except clause of an adapter: `except <driver>.Error` takes a driver
\* error only, `except Exception` (db2.py:86, 124, 152, 209) takes all
Except(d, e) ==
    IF e = NoError THEN NoError
    ELSE IF e.kind = "driver" \/ d = "db2" THEN map_driver_error(e, d)
    ELSE e

\* whether that except clause takes the exception e
Catches(d, e) == e # NoError /\ (e.kind = "driver" \/ d = "db2")

\* `if schema:`
Truthy(v) == v.kind = "str" /\ TextLen(v.runs) > 0

\* str.upper() of a name
UpperName(v) ==
    StrValue([i \in 1..Len(v.runs) |->
                [ch |-> IF v.runs[i].ch = "a" THEN "A" ELSE v.runs[i].ch,
                 n |-> v.runs[i].n]])

\* what get_tables and get_table_schema hand to the driver next to the
\* statement: postgresql.py:133,189  mysql.py:202,245,259  sqlite.py:130,152
\* db2.py:134,164,166
CatalogParams(d, op, table, schema) ==
    CASE d = "sqlite" -> NoParams
      [] d # "sqlite" /\ op = "get_schemas" -> NoParams
      [] d \in {"postgresql", "mysql"} /\ op = "get_tables" ->
            IF Truthy(schema) THEN Params(<<schema>>) ELSE NoParams
      [] d = "db2" /\ op = "get_tables" ->
            IF Truthy(schema) THEN Params(<<UpperName(schema)>>) ELSE NoParams
      [] d = "postgresql" /\ op = "get_table_schema" ->
            \* postgresql.py:161  schema or 'public'
            LET schema_name == IF Truthy(schema) THEN schema
                               ELSE StrValue(<<[ch |-> "public", n |-> 1]>>)
            IN  Params(<<schema_name, table, schema_name, table>>)
      [] d = "mysql" /\ op = "get_table_schema" ->
            IF Truthy(schema) THEN Params(<<schema, table>>) ELSE Params(<<table>>)
      [] d = "db2" /\ op = "get_table_schema" ->
            IF Truthy(schema) THEN Params(<<UpperName(schema), UpperName(table)>>)
            ELSE Params(<<UpperName(table)>>)

\* the order of the steps of a call: postgresql.py:88-105, mysql.py:144-161,
\* sqlite.py:86-99, db2.py:94-109 for execute_query; get_tables and
\* get_table_schema open the scope at once
StepAfter_AcquireFirst(step, op, d, ro) ==
    CASE step = "call" -> "acquire"
      [] step = "acquire" /\ op = "execute_query" -> "validate"
      [] step = "acquire" /\ op = "test_connection" -> "probe"
      [] step = "acquire" /\ op \notin {"execute_query", "test_connection"} -> "catalog"
      [] step = "validate" -> "sanitize"
      [] step = "sanitize" -> IF ro /\ MarksReadOnly(d) THEN "mark" ELSE "run"
      [] step = "mark" -> "run"
      [] step = "catalog" /\ op = "get_table_schema" /\ d = "db2" -> "pk"
      [] OTHER -> "exit"

StepAfter(step, op, d, ro) ==
    CASE step = "call" /\ op = "execute_query" -> "validate"
      [] step = "call" /\ op # "execute_query" -> "acquire"
      [] step = "validate" -> "sanitize"
      [] step = "sanitize" -> "acquire"
      [] step = "acquire" /\ op = "execute_query" ->
            IF ro /\ MarksReadOnly(d) THEN "mark" ELSE "run"
      [] step = "acquire" /\ op = "test_connection" -> "probe"
      [] step = "acquire" /\ op \notin {"execute_query", "test_connection"} -> "catalog"
      [] step = "mark" -> "run"
      [] step = "catalog" /\ op = "get_table_schema" /\ d = "db2" -> "pk"
      [] OTHER -> "exit"

NoCall ==
    [op |-> "none", query |-> <<>>, params |-> NoParams,
     table |-> NoneValue, schema |-> NoneValue]
NoOutcome == [status |-> "none", error |-> NoError, stage |-> "none"]
\* the value a call returns: the rows of execute_query, the names of
\* get_tables / get_schemas, the columns of get_table_schema, or the dict of
\* test_connection with its 'connected' entry
NoResult == [kind |-> "none", connected |-> FALSE, rows |-> <<>>]
Rows(rs) == [kind |-> "rows", connected |-> FALSE, rows |-> rs]
Status(c) == [kind |-> "status", connected |-> c, rows |-> <<>>]
Returned == [status |-> "ok", error |-> NoError, stage |-> "none"]
Raised(e, stage) == [status |-> "error", error |-> e, stage |-> stage]

\* one request to the driver: inline is a caller's name written into the
\* statement text itself (sqlite.py:152)
LogEntry(api, stmt, params) ==
    [api |-> api, stmt |-> stmt, params |-> params, inline |-> NoneValue]

\* the texts of the errors a driver raises in this model
DriverErrorTexts == {{"connection refused"}, {"syntax error"}}

\* what a request to the driver can raise: an error of the driver's Error
\* class, and where the request binds values of the caller also an exception
\* outside that class (psycopg2: ValueError for a NUL character in a text,
\* IndexError or TypeError for a placeholder count that does not fit;
\* sqlite3: OverflowError for an integer beyond 64 bits)
Raises(entry) ==
    {DriverError(t) : t \in DriverErrorTexts}
        \cup (IF entry.params.given \/ entry.inline # NoneValue
              THEN {PythonError({})} ELSE {})

\* the statements of test_connection: postgresql.py:243-257, mysql.py:316-332,
\* sqlite.py:191-196, db2.py:244-263
ProbeStatements(d) ==
    CASE d \in {"postgresql", "mysql"} -> <<"version", "database_name", "table_count">>
      [] d = "sqlite" -> <<"version", "table_count">>
      [] d = "db2" -> <<"server_info", "current_schema", "table_count">>

\* the except clause of a method, around its get_connection scope, on the
\* exception e: test_connection returns a dict (postgresql.py:267-273,
\* mysql.py:344-346, sqlite.py:206-212, db2.py:278-280), get_schemas of DB2
\* returns [] (db2.py:233-237), every other one raises map_driver_error(e)
MethodExcept(d, op, e, stage) ==
    IF ~Catches(d, e) THEN [outcome |-> Raised(e, stage), result |-> NoResult]
    ELSE IF op = "test_connection"
    THEN [outcome |-> Returned, result |-> Status(FALSE)]
    ELSE IF op = "get_schemas" /\ d = "db2"
    THEN [outcome |-> Returned, result |-> Rows(<<>>)]
    ELSE [outcome |-> Raised(map_driver_error(e, d), stage), result |-> NoResult]

\* what cursor.description and fetchall() give in this model: no row or one
\* row of the one column "c1", or one row of the columns a, b, a, c
FetchedRows ==
    {[columns |-> <<"c1">>, rows |-> r] : r \in {<<>>} \cup {<<<<v>>>> : v \in RawValues}}
        \cup {[columns |-> <<"a", "b", "a", "c">>,
                rows |-> <<<<Value("int", "1"), Value("str", "a"),
                             Value("Decimal", "12.50"), Value("date", "2024-01-01")>>>>]}

\* the row a dictionary cursor builds (postgresql.py:101 RealDictCursor,
\* mysql.py:151 dictionary=True): one entry per column name, a later column
\* of the same name overwrites the value of the earlier one
RECURSIVE dict_row(_, _)
dict_row(row, columns) ==
    IF row = <<>> THEN <<>>
    ELSE DictSet(dict_row(SubSeq(row, 1, Len(row) - 1), columns),
                 columns[Len(row)], row[Len(row)])

\* the tuple an adapter hands to serialize_row: postgresql.py:112 and
\* mysql.py:168 tuple(row.values()) of the cursor's dict, sqlite.py:106
\* tuple(row), db2.py:118 row
RowTuple(d, row, columns) ==
    IF d \in {"postgresql", "mysql"}
    THEN LET items == dict_row(row, columns)
         IN  [i \in 1..Len(items) |-> items[i].val]
    ELSE row

\* what a catalog request answers in this model: nothing, or one name
CatalogRows == {<<>>, <<<<Item("name", Value("str", "t"))>>>>}

\* ------------------------------------------------------------------ idle parts
MapIdle ==
    /\ map_error = {}
    /\ map_driver = "sqlite"
    /\ map_result = NoError

\* the logical database names: the keys of config.databases
Names == 1..MaxDatabases

\* a tool call: its tool, its arguments, the exception raised while it was
\* served, the statement and parameters it handed to
\* adapter.execute_query, and the rows the adapter returned to it
NoToolCall ==
    [tool |-> "none", database |-> 0, raised |-> NoError,
     table |-> <<>>, schema |-> <<>>, limit |-> 0,
     query |-> <<>>, params |-> NoParams, rows |-> <<>>]
\* what a tool gives the dispatcher: whether it returned at all, and of the
\* dict it returned 'success', 'category', 'rows', 'row_count', 'truncated'
\* and 'total_rows_before_limit'
NoToolResult ==
    [success |-> FALSE, category |-> "none", returned |-> FALSE,
     rows |-> <<>>, row_count |-> 0, truncated |-> FALSE,
     total_rows_before_limit |-> 0]

ServerIdle ==
    /\ config = <<>>
    /\ adapters = <<>>
    /\ life_pc = "off"
    /\ life_i = 0
    /\ initialized_ok = {}
    /\ close_calls = [n \in Names |-> 0]
    /\ logged = {}
    /\ tool_pc = "idle"
    /\ tool_call = NoToolCall
    /\ tool_result = NoToolResult

TasksIdle ==
    /\ tasks = <<>>
    /\ objs = <<>>
    /\ loop_owner = 0

\* ------------------------------------------------------------------ SpecGate
\* the texts of at most MaxQueryLen symbols that use one keyword, in upper
\* or lower case, next to the base symbols
QueriesOver(k) ==
    UNION {[1..n -> BaseSyms \cup {k, Lower(k)}] : n \in 0..MaxQueryLen}

GateIdle ==
    /\ gate_query = <<>>
    /\ gate_ro = TRUE
    /\ gate_result = NotRun

SanIdle ==
    /\ san_value = NoneValue
    /\ san_result = NotSanitized

AdapterIdle ==
    /\ driver_type = "sqlite"
    /\ read_only = TRUE
    /\ pool = 0
    /\ checked_out = 0
    /\ pc = "idle"
    /\ call = NoCall
    /\ conn = FALSE
    /\ err = NoError
    /\ driver_log = <<>>
    /\ outcome = NoOutcome
    /\ result = NoResult
    /\ written = "none"

\* texts of test_validate_query_safety_readonly_mode_allowed: a select in
\* lower case after blanks, and a WITH statement, which ends in a SELECT or,
\* set off by tabs or by blanks, in a DELETE
ReadQueries ==
    LET cte == <<"WITH", " ", "x", " ", "AS", " ", "(", "SELECT", " ", "x", ")">>
    IN  {<<" ", " ", " ", "select", " ", "x">>,
         cte \o <<" ", "SELECT", " ", "x">>,
         cte \o <<TAB, "DELETE", TAB, "x">>,
         cte \o <<" ", "DELETE", " ", "x">>}

GateInit ==
    /\ \/ \E k \in DangerousSet : gate_query \in QueriesOver(k)
       \/ gate_query \in ReadQueries
    /\ gate_ro \in BOOLEAN
    /\ gate_result = NotRun
    /\ SanIdle
    /\ AdapterIdle
    /\ MapIdle
    /\ ServerIdle
    /\ TasksIdle

Validate ==
    /\ gate_result = NotRun
    /\ gate_result' = _validate_query_safety(gate_query, gate_ro)
    /\ UNCHANGED <<gate_query, gate_ro, sanVars, adapterVars, mapVars, serverVars, taskVars>>

SpecGate == GateInit /\ [][Validate]_vars

\* ------------------------------------------------------------------ SpecSan
\* the texts of at most MaxRuns runs, of lengths around the ceiling
Texts ==
    LET RunLens == {1, 2, MAX_PARAM_LENGTH - 1, MAX_PARAM_LENGTH, MAX_PARAM_LENGTH + 1}
        Runs == [ch : {"a", NUL}, n : RunLens]
    IN  UNION {[1..k -> Runs] : k \in 0..MaxRuns}
Values == {NoneValue} \cup {NumValue(n) : n \in {0, 7}} \cup {StrValue(r) : r \in Texts}

SanInit ==
    /\ san_value \in Values
    /\ san_result = NotSanitized
    /\ GateIdle
    /\ AdapterIdle
    /\ MapIdle
    /\ ServerIdle
    /\ TasksIdle

Sanitize ==
    /\ san_result = NotSanitized
    /\ san_result' = _sanitize_parameter(san_value)
    /\ UNCHANGED <<san_value, gateVars, adapterVars, mapVars, serverVars, taskVars>>

SpecSan == SanInit /\ [][Sanitize]_vars

\* ------------------------------------------------------------------ SpecMap
\* the phrases the classifier looks for, as drivers spell them, and one it
\* does not look for
RawPhrases ==
    {"connection refused", "Connection refused", "authentication failed",
     "does not exist", "access denied", "Access denied", "unknown database",
     "Unknown database", "can't connect", "Can't connect", "no such table",
     "database is locked", "unable to open database file", "sql0204n",
     "SQL0204N", "sql30081n", "SQL30081N", "sql30082n", "SQL30082N",
     "syntax error"}

\* an error text with at most MaxPhrases of these phrases, and the tag of
\* one of the four adapters or one that is none of them
MapInit ==
    /\ map_error \in {t \in SUBSET RawPhrases : Cardinality(t) <= MaxPhrases}
    /\ map_driver \in Adapters \cup {"oracle"}
    /\ map_result = NoError
    /\ GateIdle
    /\ SanIdle
    /\ AdapterIdle
    /\ ServerIdle
    /\ TasksIdle

Classify ==
    /\ map_result = NoError
    /\ map_result' = map_driver_error(DriverError(map_error), map_driver)
    /\ UNCHANGED <<map_error, map_driver, gateVars, sanVars, adapterVars, serverVars, taskVars>>

SpecMap == MapInit /\ [][Classify]_vars

\* ------------------------------------------------------------------ SpecServer
(***************************************************************************)
(* lifespan (server.py:61-111) and the tools it serves (server.py:120-442).*)
(* A database of the configuration is its type and whether the adapter's   *)
(* constructor accepts its connection string (sqlite.py:41-44,             *)
(* mysql.py:56-77 raise ValueError; the other two constructors take any).  *)
(***************************************************************************)
ConfigEntries ==
    {e \in [type : Adapters, valid : BOOLEAN] : e.valid \/ e.type \in {"sqlite", "mysql"}}

\* server.py:82-87  create_adapter raises
CreateFails(e) == ~e.valid

\* initialize() can raise: postgresql.py:49-51, mysql.py:106-108,
\* db2.py:53-55; sqlite.py:48-52 cannot
InitializeMayFail(e) == e.type # "sqlite"

\* close() can raise: postgresql.py:57 closeall(); mysql.py:116 and
\* sqlite.py:57 call nothing, db2.py:62-65 catches every exception
CloseMayRaise(e) == e.type = "postgresql"

\* server.py:89-90  adapters[name] = adapter comes after initialize()
RegistryAfter_Eager(registry, name, ok) == Append(registry, name)
RegistryAfter(registry, name, ok) == IF ok THEN Append(registry, name) ELSE registry

\* server.py:105-109  try / except Exception around each close()
CloseErrorCaught_Never == FALSE
CloseErrorCaught == TRUE

Tools ==
    {"execute_query", "list_tables", "describe_table", "test_connection",
     "get_sample_data", "list_schemas"}

\* server.py:193-199: only execute_query has `except Exception` after its
\* `except DatabaseError`; the other tools (server.py:241, 292, 330, 395,
\* 437) have `except DatabaseError` alone
CatchesException(tool) == tool = "execute_query"

\* what the adapter method a tool calls can raise: a DatabaseError, and on
\* the adapters whose except clauses name the driver's Error class an
\* exception outside it
AdapterRaises(e) ==
    {GateError("validation_error"), GateError("security_error"),
     ConnectionError({}), QueryError({"database"}), NotFoundError({})}
        \cup (IF e.type # "db2" THEN {PythonError({})} ELSE {})

\* utils.py:130  max_limit: int = 1000
max_limit == 1000

\* utils.py:127-149, with rows[:effective_limit] as Python slices: a
\* negative bound counts from the end of the list
truncate_results(rows, limit) ==
    LET effective_limit == IF limit < max_limit THEN limit ELSE max_limit
        stop == IF effective_limit >= 0 THEN effective_limit
                ELSE IF Len(rows) + effective_limit > 0
                THEN Len(rows) + effective_limit ELSE 0
    IN  IF Len(rows) > effective_limit
        THEN [rows |-> SubSeq(rows, 1, stop), truncated |-> TRUE]
        ELSE [rows |-> rows, truncated |-> FALSE]

\* the limits of execute_query in this model, and the lists of rows an
\* adapter returns to it: a row is its number in the backend's result
Limits == {-1, 0, 2, max_limit, max_limit + 1}
ResultLists == {[i \in 1..n |-> i] : n \in {0, 3, max_limit + 1}}

\* sqlite.py:115-123  quote_identifier on a name that is not blank:
\* identifier.replace('"', '""') between two double quotes
quote_identifier(identifier) ==
    LET RECURSIVE Doubled(_)
        Doubled(t) ==
            IF t = <<>> THEN <<>>
            ELSE (IF Head(t) = "\"" THEN <<"\"", "\"">> ELSE <<Head(t)>>)
                    \o Doubled(Tail(t))
    IN  <<"\"">> \o Doubled(identifier) \o <<"\"">>

\* the arguments of get_sample_data in this model: a plain table name, the
\* name 'x;--' and the name 'x"', no schema (None) or the schema 's', and a
\* limit below and above the tool's ceiling of 100
SampleArgs ==
    [table : {<<"x">>, <<"x", ";", "-", "-">>, <<"x", "\"">>},
     schema : {<<>>, <<"s">>},
     limit : {10, 101}]

\* server.py:369-380  the statement and the parameters get_sample_data
\* hands to adapter.execute_query
get_sample_data_query(table, schema, limit) ==
    LET full_table_name == IF schema # <<>> THEN schema \o <<".">> \o table ELSE table
        effective_limit == IF limit < 100 THEN limit ELSE 100
    IN  [query |-> <<"SELECT", " ", "*", " ", "FROM", " ">> \o full_table_name
                      \o <<" ", "LIMIT", " ", ToString(effective_limit)>>,
         params |-> NoParams]

Success == [NoToolResult EXCEPT !.success = TRUE, !.returned = TRUE]
\* {"success": False, **e.to_mcp_error()}  and server.py:195-199
Failure(c) == [NoToolResult EXCEPT !.category = c, !.returned = TRUE]
\* the exception left the tool function
Propagated == NoToolResult

\* the except clauses of a tool on the exception e
ToolExcept(tool, e) ==
    IF e.kind = "database" THEN Failure(e.category)
    ELSE IF CatchesException(tool) THEN Failure("unknown_error")
    ELSE Propagated

ServerInit ==
    /\ config \in UNION {[1..n -> ConfigEntries] : n \in 1..MaxDatabases}
    /\ adapters = <<>>
    /\ life_pc = "startup"
    /\ life_i = 1
    /\ initialized_ok = {}
    /\ close_calls = [n \in Names |-> 0]
    /\ logged = {}
    /\ tool_pc = "idle"
    /\ tool_call = NoToolCall
    /\ tool_result = NoToolResult
    /\ GateIdle
    /\ SanIdle
    /\ AdapterIdle
    /\ MapIdle
    /\ TasksIdle

\* server.py:78-91  one round of the start-up loop
Startup ==
    /\ life_pc = "startup"
    /\ life_i <= Len(config)
    /\ \/ /\ CreateFails(config[life_i])
          /\ life_pc' = "failed"
          /\ UNCHANGED <<adapters, initialized_ok, life_i>>
       \/ /\ ~CreateFails(config[life_i])
          /\ initialized_ok' = initialized_ok \cup {life_i}
          /\ adapters' = RegistryAfter(adapters, life_i, TRUE)
          /\ life_i' = life_i + 1
          /\ UNCHANGED life_pc
       \/ /\ ~CreateFails(config[life_i])
          /\ InitializeMayFail(config[life_i])
          /\ adapters' = RegistryAfter(adapters, life_i, FALSE)
          /\ life_pc' = "failed"
          /\ UNCHANGED <<initialized_ok, life_i>>
    /\ UNCHANGED <<config, close_calls, logged, tool_pc, tool_call, tool_result,
                   gateVars, sanVars, adapterVars, mapVars, taskVars>>

\* server.py:93-100  the loop is over: yield
StartupDone ==
    /\ life_pc = "startup"
    /\ life_i > Len(config)
    /\ life_pc' = "running"
    /\ UNCHANGED <<config, adapters, life_i, initialized_ok, close_calls, logged,
                   tool_pc, tool_call, tool_result,
                   gateVars, sanVars, adapterVars, mapVars, taskVars>>

\* the server stops and lifespan resumes after its yield
ServerStops ==
    /\ life_pc = "running"
    /\ tool_pc = "idle"
    /\ life_pc' = "shutdown"
    /\ life_i' = 1
    /\ UNCHANGED <<config, adapters, initialized_ok, close_calls, logged,
                   tool_pc, tool_call, tool_result,
                   gateVars, sanVars, adapterVars, mapVars, taskVars>>

\* the server ends with an exception: it is thrown into lifespan at the
\* yield of server.py:100, which stands in no try block
ServerFails ==
    /\ life_pc = "running"
    /\ life_pc' = "crashed"
    /\ UNCHANGED <<config, adapters, life_i, initialized_ok, close_calls, logged,
                   tool_pc, tool_call, tool_result,
                   gateVars, sanVars, adapterVars, mapVars, taskVars>>

\* server.py:104-109  one round of the shutdown loop
Shutdown ==
    /\ life_pc = "shutdown"
    /\ life_i <= Len(adapters)
    /\ LET name == adapters[life_i]
       IN  /\ close_calls' = [close_calls EXCEPT ![name] = @ + 1]
           /\ \/ /\ life_i' = life_i + 1
                 /\ UNCHANGED <<life_pc, logged>>
              \/ /\ CloseMayRaise(config[name])
                 /\ IF CloseErrorCaught
                    THEN /\ logged' = logged \cup {name}
                         /\ life_i' = life_i + 1
                         /\ UNCHANGED life_pc
                    ELSE /\ life_pc' = "shutdown_failed"
                         /\ UNCHANGED <<life_i, logged>>
    /\ UNCHANGED <<config, adapters, initialized_ok, tool_pc, tool_call, tool_result,
                   gateVars, sanVars, adapterVars, mapVars, taskVars>>

\* server.py:111
ShutdownDone ==
    /\ life_pc = "shutdown"
    /\ life_i > Len(adapters)
    /\ life_pc' = "done"
    /\ UNCHANGED <<config, adapters, life_i, initialized_ok, close_calls, logged,
                   tool_pc, tool_call, tool_result,
                   gateVars, sanVars, adapterVars, mapVars, taskVars>>

\* the dispatcher calls a tool with the name of a database; the tool runs
\* up to its await: `if database not in adapters: raise ValidationError(...)`
ToolCall ==
    /\ life_pc = "running"
    /\ tool_pc = "idle"
    /\ \E t \in Tools, db \in {0} \cup Names :
       \E a \in (CASE t = "get_sample_data" -> SampleArgs
                   [] t = "execute_query" -> [table : {<<>>}, schema : {<<>>}, limit : Limits]
                   [] OTHER -> [table : {<<>>}, schema : {<<>>}, limit : {0}]) :
         LET c == [NoToolCall EXCEPT !.tool = t, !.database = db,
                       !.table = a.table, !.schema = a.schema, !.limit = a.limit]
             sent == get_sample_data_query(c.table, c.schema, c.limit)
         IN  IF \E k \in 1..Len(adapters) : adapters[k] = db
             THEN /\ tool_call' = IF t = "get_sample_data"
                                  THEN [c EXCEPT !.query = sent.query,
                                                 !.params = sent.params]
                                  ELSE c
                  /\ tool_pc' = "adapter"
                  /\ tool_result' = NoToolResult
             ELSE /\ tool_call' = [c EXCEPT !.raised = GateError("validation_error")]
                  /\ tool_pc' = "idle"
                  /\ tool_result' = ToolExcept(t, GateError("validation_error"))
    /\ UNCHANGED <<config, adapters, life_pc, life_i, initialized_ok, close_calls,
                   logged, gateVars, sanVars, adapterVars, mapVars, taskVars>>

\* the call of the adapter's method and the rest of the tool: it returns the
\* success dict, or an exception reaches the tool's except clauses
ToolAdapter ==
    /\ life_pc = "running"
    /\ tool_pc = "adapter"
    /\ tool_pc' = "idle"
    /\ \/ /\ tool_call.tool # "execute_query"
          /\ tool_result' = Success
          /\ UNCHANGED tool_call
       \/ /\ tool_call.tool = "execute_query"      \* server.py:166-184
          /\ \E row_data \in ResultLists :
               LET t == truncate_results(row_data, tool_call.limit)
               IN  /\ tool_result' = [Success EXCEPT
                                         !.rows = t.rows,
                                         !.row_count = Len(t.rows),
                                         !.truncated = t.truncated,
                                         !.total_rows_before_limit = Len(row_data)]
                   /\ tool_call' = [tool_call EXCEPT !.rows = row_data]
       \/ \E e \in AdapterRaises(config[tool_call.database]) :
            /\ tool_call' = [tool_call EXCEPT !.raised = e]
            /\ tool_result' = ToolExcept(tool_call.tool, e)
    /\ UNCHANGED <<config, adapters, life_pc, life_i, initialized_ok, close_calls,
                   logged, gateVars, sanVars, adapterVars, mapVars, taskVars>>

ServerNext ==
    \/ Startup
    \/ StartupDone
    \/ ServerStops
    \/ ServerFails
    \/ Shutdown
    \/ ShutdownDone
    \/ ToolCall
    \/ ToolAdapter

SpecServer == ServerInit /\ [][ServerNext]_vars

\* ------------------------------------------------------------------ SpecTasks
(***************************************************************************)
(* Coroutines on the one thread of the asyncio event loop, working on two  *)
(* adapter objects.  A task is a call of adapter.execute_query, or a       *)
(* caller's own `async with adapter.get_connection() as conn:` block that  *)
(* awaits inside the scope.  The thread runs a task until the task reaches *)
(* an await that suspends or ends; a plain call of a blocking driver keeps *)
(* the thread until the driver returns.  A connection is its index in the  *)
(* pool or list of its adapter object.                                     *)
(***************************************************************************)
\* the steps of a task at which its coroutine awaits something that
\* suspends it: the getconn / connect, cursor.execute, fetchall and
\* putconn / close of postgresql.py:73-79, 97-108, mysql.py:131-137,
\* 151-164, sqlite.py:70-77, 93-102 and db2.py:102-112 are plain calls, so
\* no step of execute_query is one; a caller's own block awaits inside the
\* scope
Suspends(kind, step) == kind = "get_connection" /\ step = "in_scope"

\* the connection get_connection yields, 0 when the pool raises PoolError;
\* taken are the connections other scopes hold: postgresql.py:73 getconn,
\* mysql.py:131 get_connection, sqlite.py:70 connect (a new handle each
\* time), db2.py:80 self._connections[0]
TakeConnection_FromPool(type, size, taken) ==
    LET free == (1..(IF type = "sqlite" THEN MaxTasks ELSE size)) \ taken
    IN  IF free = {} THEN 0 ELSE MinOf(free)
TakeConnection(type, size, taken) ==
    IF type = "db2" THEN 1
    ELSE LET free == (1..(IF type = "sqlite" THEN MaxTasks ELSE size)) \ taken
         IN  IF free = {} THEN 0 ELSE MinOf(free)

\* the adapter objects after initialize(): postgresql.py:43-47 opens
\* minconn = 1 connection, mysql.py:99-104 and db2.py:45-49 open pool_size,
\* sqlite.py:48-52 none
TasksInit ==
    /\ tasks \in [1..MaxTasks -> [kind : {"execute_query", "get_connection"},
                                  obj : {1, 2}, pc : {"new"}, conn : {0}]]
    /\ \E n \in 1..PoolSize :
         objs \in {f \in [{1, 2} -> [type : Adapters, size : {n}, open : SUBSET (1..n)]] :
                    \A o \in {1, 2} :
                        f[o].open = CASE f[o].type = "sqlite" -> {}
                                      [] f[o].type = "postgresql" -> {1}
                                      [] OTHER -> 1..n}
    /\ loop_owner = 0
    /\ GateIdle
    /\ SanIdle
    /\ AdapterIdle
    /\ MapIdle
    /\ ServerIdle

\* task t moves to step next; the thread stays with it unless it suspends
\* there or has ended
TaskMoves(t, next, c) ==
    /\ tasks' = [tasks EXCEPT ![t].pc = next, ![t].conn = c]
    /\ loop_owner' = IF Suspends(tasks[t].kind, next) \/ next = "done" THEN 0 ELSE t
    /\ UNCHANGED <<gateVars, sanVars, adapterVars, mapVars, serverVars>>

\* the event loop starts the coroutine of task t
TaskStart(t) ==
    /\ loop_owner = 0
    /\ tasks[t].pc = "new"
    /\ TaskMoves(t, "acquire", 0)
    /\ UNCHANGED objs

\* entering get_connection: the connection is taken, or the pool is
\* exhausted and the exception ends the task
TaskAcquire(t) ==
    /\ loop_owner = t
    /\ tasks[t].pc = "acquire"
    /\ LET o == tasks[t].obj
           others == {u \in DOMAIN tasks : u # t /\ tasks[u].obj = o}
           taken == {tasks[u].conn : u \in others} \ {0}
           c == TakeConnection(objs[o].type, objs[o].size, taken)
       IN  /\ TaskMoves(t, IF c = 0 THEN "done"
                           ELSE IF tasks[t].kind = "get_connection" THEN "in_scope"
                           ELSE "round_trip", c)
           /\ objs' = [objs EXCEPT ![o].open = IF c = 0 THEN @ ELSE @ \cup {c}]

\* the backend answers the statement task t has sent with cursor.execute
BackendAnswers(t) ==
    /\ tasks[t].pc = "round_trip"
    /\ TaskMoves(t, "release", tasks[t].conn)
    /\ UNCHANGED objs

\* the event loop resumes the caller's block, which leaves the scope
TaskResume(t) ==
    /\ loop_owner = 0
    /\ tasks[t].pc = "in_scope"
    /\ TaskMoves(t, "release", tasks[t].conn)
    /\ UNCHANGED objs

\* leaving get_connection: postgresql.py:77-79 putconn and mysql.py:135-137
\* close hand the connection back to the pool, sqlite.py:75-77 closes it,
\* db2.py:84-87 does nothing
TaskRelease(t) ==
    /\ loop_owner = t
    /\ tasks[t].pc = "release"
    /\ LET o == tasks[t].obj
       IN  objs' = [objs EXCEPT ![o].open = IF objs[o].type = "sqlite"
                                            THEN @ \ {tasks[t].conn} ELSE @]
    /\ TaskMoves(t, "done", 0)

TasksNext ==
    \E t \in 1..MaxTasks :
        \/ TaskStart(t)
        \/ TaskAcquire(t)
        \/ BackendAnswers(t)
        \/ TaskResume(t)
        \/ TaskRelease(t)

SpecTasks == TasksInit /\ [][TasksNext]_vars

\* ------------------------------------------------------------------ Spec
NameValues ==
    {StrValue(<<[ch |-> "a", n |-> 1]>>),
     StrValue(<<[ch |-> "a", n |-> 1], [ch |-> NUL, n |-> 1]>>),
     StrValue(<<[ch |-> "a", n |-> MAX_PARAM_LENGTH + 1]>>)}
SchemaValues == {NoneValue} \cup NameValues
ParamTuples ==
    LET ParamValues == {NoneValue, NumValue(7)} \cup NameValues
    IN  {NoParams}
            \cup {Params(vs) : vs \in UNION {[1..k -> ParamValues] : k \in 0..MaxParams}}
SampleQueries ==
    {<<"SELECT", " ", "x">>, <<"SELECT", TAB, "DELETE">>, <<"INSERT", " ", "x">>,
     <<"x", ";", "x">>, <<"-", "-">>, <<" ">>}

Init ==
    /\ driver_type \in Adapters
    /\ read_only \in BOOLEAN
    /\ pool = 0
    /\ checked_out = 0
    /\ pc = "idle"
    /\ call = NoCall
    /\ conn = FALSE
    /\ err = NoError
    /\ driver_log = <<>>
    /\ outcome = NoOutcome
    /\ result = NoResult
    /\ written = "none"
    /\ GateIdle
    /\ SanIdle
    /\ MapIdle
    /\ ServerIdle
    /\ TasksIdle

Begin(c) ==
    /\ pc = "idle"
    /\ call' = c
    /\ pc' = StepAfter("call", c.op, driver_type, read_only)
    /\ err' = NoError
    /\ driver_log' = <<>>
    /\ outcome' = NoOutcome
    /\ result' = NoResult
    /\ written' = "none"
    /\ UNCHANGED <<driver_type, read_only, pool, checked_out, conn,
                   gateVars, sanVars, mapVars, serverVars, taskVars>>

\* a caller enters execute_query(query, parameters)
CallExecuteQuery ==
    \E q \in SampleQueries, p \in ParamTuples :
        Begin([NoCall EXCEPT !.op = "execute_query", !.query = q, !.params = p])

\* a caller enters get_tables(schema)
CallGetTables ==
    \E sc \in SchemaValues :
        Begin([NoCall EXCEPT !.op = "get_tables", !.schema = sc])

\* a caller enters get_table_schema(table_name, schema)
CallGetTableSchema ==
    \E t \in NameValues, sc \in SchemaValues :
        Begin([NoCall EXCEPT !.op = "get_table_schema", !.table = t, !.schema = sc])

\* a caller enters get_schemas(): sqlite.py:180-182 returns [] at once
CallGetSchemas ==
    IF driver_type = "sqlite"
    THEN /\ pc = "idle"
         /\ call' = [NoCall EXCEPT !.op = "get_schemas"]
         /\ driver_log' = <<>>
         /\ outcome' = Returned
         /\ result' = Rows(<<>>)
         /\ written' = "none"
         /\ UNCHANGED <<driver_type, read_only, pool, checked_out, pc, conn, err,
                        gateVars, sanVars, mapVars, serverVars, taskVars>>
    ELSE Begin([NoCall EXCEPT !.op = "get_schemas"])

\* a caller enters test_connection()
CallTestConnection ==
    Begin([NoCall EXCEPT !.op = "test_connection"])

\* an exception leaves the method from outside any get_connection scope
RaiseOut(e, stage) ==
    /\ pc' = "idle"
    /\ outcome' = Raised(e, stage)
    /\ err' = NoError

\* self._validate_query_safety(query)
StepValidate ==
    /\ pc = "validate"
    /\ LET g == _validate_query_safety(call.query, read_only)
       IN  IF g.category = "ok"
           THEN /\ pc' = StepAfter("validate", call.op, driver_type, read_only)
                /\ UNCHANGED <<outcome, err>>
           ELSE RaiseOut(GateError(g.category), "validate")
    /\ UNCHANGED <<written, driver_type, read_only, pool, checked_out, call, conn,
                   driver_log, result, gateVars, sanVars, mapVars, serverVars, taskVars>>

\* parameters = self._sanitize_parameters(parameters)
StepSanitize ==
    /\ pc = "sanitize"
    /\ LET r == _sanitize_parameters(call.params)
       IN  IF r.status = "ok"
           THEN /\ pc' = StepAfter("sanitize", call.op, driver_type, read_only)
                /\ call' = [call EXCEPT !.params = r.value]
                /\ UNCHANGED <<outcome, err>>
           ELSE /\ RaiseOut(GateError(r.status), "sanitize")
                /\ UNCHANGED call
    /\ UNCHANGED <<written, driver_type, read_only, pool, checked_out, conn,
                   driver_log, result, gateVars, sanVars, mapVars, serverVars, taskVars>>

\* entering `async with self.get_connection() as conn`
StepAcquire ==
    /\ pc = "acquire"
    /\ \/ /\ ChecksPool(driver_type) /\ pool = 0
          /\ LET m == MethodExcept(driver_type, call.op, ConnectionError({}), "acquire")
             IN  /\ outcome' = m.outcome
                 /\ result' = m.result
          /\ pc' = "idle"
          /\ err' = NoError
          /\ UNCHANGED <<checked_out, conn, driver_log>>
       \/ /\ ~(ChecksPool(driver_type) /\ pool = 0)
          /\ ~AcquireCallsDriver(driver_type)
          /\ conn' = TRUE
          /\ pc' = StepAfter("acquire", call.op, driver_type, read_only)
          /\ UNCHANGED <<checked_out, driver_log, outcome, err, result>>
       \/ /\ ~(ChecksPool(driver_type) /\ pool = 0)
          /\ AcquireCallsDriver(driver_type)
          /\ driver_log' = Append(driver_log, LogEntry("acquire", "", NoParams))
          /\ \/ /\ conn' = TRUE
                /\ checked_out' = checked_out + 1
                /\ pc' = StepAfter("acquire", call.op, driver_type, read_only)
                /\ UNCHANGED <<outcome, err, result>>
             \/ \E t \in DriverErrorTexts :
                    /\ err' = DriverError(t)
                    /\ pc' = "exit"
                    /\ UNCHANGED <<conn, checked_out, outcome, result>>
    /\ UNCHANGED <<written, driver_type, read_only, pool, call, gateVars, sanVars, mapVars, serverVars, taskVars>>

\* one request to the driver inside the scope: it answers, or raises
DriverCall(entry, next) ==
    /\ driver_log' = Append(driver_log, entry)
    /\ \/ /\ pc' = next
          /\ err' = NoError
       \/ \E e \in Raises(entry) :
            /\ err' = e
            /\ pc' = "exit"
    /\ UNCHANGED <<driver_type, read_only, pool, checked_out, call, conn,
                   outcome, gateVars, sanVars, mapVars, serverVars, taskVars>>

\* cursor.execute("SET TRANSACTION READ ONLY") /
\* cursor.execute("SET SESSION TRANSACTION READ ONLY")
StepMark ==
    /\ pc = "mark"
    /\ DriverCall(LogEntry("execute", "read_only_mark", NoParams),
                  StepAfter("mark", call.op, driver_type, read_only))
    /\ UNCHANGED <<result, written>>

\* cursor.execute(query, parameters) or cursor.execute(query), then
\* rows = cursor.fetchall() and result = [serialize_row(row, columns) ...]:
\* postgresql.py:101-115, mysql.py:158-172, sqlite.py:96-109, db2.py:106-122
StepRun ==
    /\ pc = "run"
    /\ DriverCall(LogEntry("execute", "user", call.params),
                  StepAfter("run", call.op, driver_type, read_only))
    /\ \E fetched \in FetchedRows :
         LET rows == fetched.rows
             columns == fetched.columns
         IN  result' = IF err' = NoError
                       THEN Rows([i \in 1..Len(rows) |->
                                    serialize_row(RowTuple(driver_type, rows[i], columns),
                                                  columns)])
                       ELSE result
    \* an INSERT, UPDATE or DELETE that the backend has run: ibm_db.connect
    \* (db2.py:46) leaves autocommit on; psycopg2, mysql.connector and
    \* sqlite3 have opened a transaction, and no adapter calls commit()
    /\ written' = IF err' = NoError
                      /\ get_type(parse(call.query)[1]) \in {"INSERT", "UPDATE", "DELETE"}
                   THEN IF driver_type = "db2" THEN "committed" ELSE "pending"
                   ELSE written

\* the catalog request of get_tables / get_table_schema
StepCatalog ==
    /\ pc = "catalog"
    /\ LET params == CatalogParams(driver_type, call.op, call.table, call.schema)
           inline == IF driver_type = "sqlite" /\ call.op = "get_table_schema"
                     THEN call.table ELSE NoneValue
           entry == [LogEntry("catalog", call.op, params) EXCEPT !.inline = inline]
       IN  /\ driver_log' = Append(driver_log, entry)
           /\ \/ \E e \in Raises(entry) :
                   /\ err' = e
                   /\ pc' = "exit"
                   /\ UNCHANGED result
              \/ /\ call.op \in {"get_tables", "get_schemas"}
                 /\ err' = NoError
                 /\ pc' = StepAfter("catalog", call.op, driver_type, read_only)
                 /\ \E names \in CatalogRows : result' = Rows(names)
              \/ /\ call.op = "get_table_schema"
                 /\ \/ /\ err' = NoError      \* the catalog has columns for the table
                       /\ pc' = StepAfter("catalog", call.op, driver_type, read_only)
                       /\ \E columns_info \in CatalogRows \ {<<>>} :
                            result' = Rows(columns_info)
                    \/ /\ err' = NotFoundError({})      \* `if not columns_info`
                       /\ pc' = "exit"
                       /\ UNCHANGED result
    /\ UNCHANGED <<written, driver_type, read_only, pool, checked_out, call, conn,
                   outcome, gateVars, sanVars, mapVars, serverVars, taskVars>>

\* db2.py:179-191  ibm_db.primary_keys
StepPk ==
    /\ pc = "pk"
    /\ DriverCall(LogEntry("catalog", "primary_keys",
                           CatalogParams(driver_type, call.op, call.table, call.schema)),
                  StepAfter("pk", call.op, driver_type, read_only))
    /\ UNCHANGED <<result, written>>

\* the statements of test_connection, one after the other: the first k
\* answer and the next one raises, or all answer; db2.py:254-265 has a bare
\* except around the table count
StepProbe ==
    /\ pc = "probe"
    /\ LET stmts == ProbeStatements(driver_type)
           Asked(k) == [i \in 1..k |-> LogEntry("execute", stmts[i], NoParams)]
       IN  \/ /\ driver_log' = driver_log \o Asked(Len(stmts))
              /\ err' = NoError
              /\ result' = Status(TRUE)
           \/ \E k \in 1..Len(stmts) :
                /\ driver_log' = driver_log \o Asked(k)
                /\ IF driver_type = "db2" /\ stmts[k] = "table_count"
                   THEN /\ err' = NoError
                        /\ result' = Status(TRUE)
                   ELSE /\ \E e \in Raises(Asked(k)[k]) : err' = e
                        /\ UNCHANGED result
    /\ pc' = StepAfter("probe", call.op, driver_type, read_only)
    /\ UNCHANGED <<written, driver_type, read_only, pool, checked_out, call, conn,
                   outcome, gateVars, sanVars, mapVars, serverVars, taskVars>>

\* leaving the get_connection scope and the method: the scope's except
\* clause, its finally clause, then the method's except clause
StepExit ==
    /\ pc = "exit"
    /\ LET in_scope == Except(driver_type, err)
           releases == conn /\ ReleasesConn(driver_type, err)
           m == IF in_scope = NoError
                THEN [outcome |-> Returned, result |-> result]
                ELSE MethodExcept(driver_type, call.op, in_scope, "scope")
       IN  /\ checked_out' = IF releases THEN checked_out - 1 ELSE checked_out
           /\ driver_log' = IF releases
                            THEN Append(driver_log, LogEntry("release", "", NoParams))
                            ELSE driver_log
           /\ outcome' = m.outcome
           /\ result' = m.result
    /\ conn' = FALSE
    \* putconn (postgresql.py:79) rolls back a connection that comes back
    \* inside a transaction, close() of a pooled connection (mysql.py:137)
    \* resets its session, close() of sqlite3 (sqlite.py:77) drops what is
    \* not committed
    /\ written' = IF written = "pending" THEN "rolled_back" ELSE written
    /\ err' = NoError
    /\ pc' = "idle"
    /\ UNCHANGED <<driver_type, read_only, pool, call, gateVars, sanVars, mapVars, serverVars, taskVars>>

\* initialize(): postgresql.py:39-51, mysql.py:95-108, sqlite.py:48-52,
\* db2.py:40-55 (k connections are opened before the driver fails)
Initialize ==
    /\ pc = "idle"
    /\ pool = 0
    /\ call' = [NoCall EXCEPT !.op = "initialize"]
    /\ driver_log' = <<>>
    /\ result' = NoResult
    /\ written' = "none"
    /\ \/ /\ driver_type = "sqlite"
          /\ outcome' = Returned
          /\ UNCHANGED pool
       \/ /\ driver_type \in {"postgresql", "mysql"}
          /\ \/ /\ pool' = 1
                /\ outcome' = Returned
             \/ \E t \in DriverErrorTexts :
                    /\ outcome' = Raised(map_driver_error(DriverError(t), driver_type),
                                         "initialize")
                    /\ UNCHANGED pool
       \/ /\ driver_type = "db2"
          /\ \/ /\ pool' = PoolSize
                /\ outcome' = Returned
             \/ \E k \in 0..(PoolSize - 1), t \in DriverErrorTexts :
                    /\ pool' = k
                    /\ outcome' = Raised(map_driver_error(DriverError(t), driver_type),
                                         "initialize")
    /\ UNCHANGED <<driver_type, read_only, checked_out, pc, conn, err, gateVars, sanVars, mapVars, serverVars, taskVars>>

\* close(): postgresql.py:53-58, mysql.py:110-116, sqlite.py:54-57, db2.py:57-66
Close ==
    /\ pc = "idle"
    /\ call' = [NoCall EXCEPT !.op = "close"]
    /\ driver_log' = <<>>
    /\ result' = NoResult
    /\ written' = "none"
    /\ pool' = 0
    /\ outcome' = Returned
    /\ UNCHANGED <<driver_type, read_only, checked_out, pc, conn, err, gateVars, sanVars, mapVars, serverVars, taskVars>>

Next ==
    \/ CallExecuteQuery
    \/ CallGetTables
    \/ CallGetTableSchema
    \/ CallGetSchemas
    \/ CallTestConnection
    \/ StepValidate
    \/ StepSanitize
    \/ StepAcquire
    \/ StepMark
    \/ StepRun
    \/ StepCatalog
    \/ StepPk
    \/ StepProbe
    \/ StepExit
    \/ Initialize
    \/ Close

Spec == Init /\ [][Next]_vars

\* ================================================================== claims
Validated == gate_result # NotRun
OnlyWhitespace(q) == \A i \in 1..Len(q) : q[i] \in WhitespaceSyms

\* a banned keyword, in any letter case, with whitespace or the end of the
\* text on either side
WholeWordKeywordAt(q, i) ==
    /\ Upper(q[i]) \in DangerousSet
    /\ (i = 1 \/ q[i - 1] \in WhitespaceSyms)
    /\ (i = Len(q) \/ q[i + 1] \in WhitespaceSyms)

MentionsCommentMarker(q) ==
    \E i \in 1..(Len(q) - 1) :
        \/ q[i] = "-" /\ q[i + 1] = "-"
        \/ q[i] = "/" /\ q[i + 1] = "*"

\* C1: in read-only mode every non-empty text holding a banned keyword as a
\* whole word, bounded by a space, a tab, a newline or the end of the text,
\* in any letter case, is refused with category security.
C1_KeywordAlwaysRefused ==
    (/\ Validated
     /\ gate_ro
     /\ \E i \in 1..Len(gate_query) : WholeWordKeywordAt(gate_query, i))
        => gate_result.category = "security_error"

C3_MultiStatementRefused ==
    (Validated /\ Len(parse(gate_query)) > 1)
        => gate_result.category = "security_error"

C3_Witness ==
    /\ Validated
    /\ ~gate_ro
    /\ gate_query = <<"SELECT", ";", "x">>
    /\ gate_result = SecurityError("multi", "")

\* C4: every empty or whitespace-only text is refused with category
\* validation by the emptiness check, the first check of the gate, in
\* read-only and in writable mode.
C4_EmptyRefused ==
    (Validated /\ OnlyWhitespace(gate_query))
        => gate_result = ValidationError("empty")

C4_Witness ==
    /\ Validated
    /\ ~gate_ro
    /\ gate_query = <<TAB, NL, " ">>
    /\ gate_result.category = "validation_error"

\* C5: in writable mode the keyword scan and the statement-type check are
\* skipped: a single, comment-free, non-empty INSERT, UPDATE or DELETE
\* statement passes, while a text of several statements or with a comment
\* marker is still refused with category security.
C5_WritablePassesWrites ==
    (Validated /\ ~gate_ro /\ ~OnlyWhitespace(gate_query)) =>
        LET parsed == parse(gate_query)
        IN  /\ (\/ Len(parsed) > 1
                \/ MentionsCommentMarker(gate_query))
                   => gate_result.category = "security_error"
            /\ (/\ Len(parsed) = 1
                /\ ~MentionsCommentMarker(gate_query)
                /\ get_type(parsed[1]) \in {"INSERT", "UPDATE", "DELETE"})
                   => gate_result = Passed

C5_Witness ==
    /\ Validated
    /\ ~gate_ro
    /\ gate_query = <<"delete", " ", "x">>
    /\ gate_result = Passed

\* C8 as stated: every text longer than 10,000 characters as submitted is
\* refused.
SubmittedLen(v) == TextLen(v.runs)
Sanitized == san_result # NotSanitized

C8_LongTextAsSubmittedRefused ==
    (Sanitized /\ san_value.kind = "str"
       /\ SubmittedLen(san_value) > MAX_PARAM_LENGTH)
        => san_result.status = "validation_error"

\* the characters of a text that are not NUL, in order
RECURSIVE NonNulRuns(_)
NonNulRuns(runs) ==
    IF runs = <<>> THEN <<>>
    ELSE (IF Head(runs).ch # NUL THEN <<Head(runs)>> ELSE <<>>)
            \o NonNulRuns(Tail(runs))

RECURSIVE NonNulCount(_)
NonNulCount(runs) ==
    IF runs = <<>> THEN 0
    ELSE (IF Head(runs).ch # NUL THEN Head(runs).n ELSE 0)
            + NonNulCount(Tail(runs))

\* C8 (amended): None gives None, a value that is not text comes back
\* unchanged, and a text is refused with a validation failure exactly when
\* more than 10,000 characters are left after its NUL characters are
\* removed; an accepted text comes back without any NUL character.
C8_SanitizeParameter ==
    Sanitized =>
        /\ san_value.kind = "none" => san_result = Accepted(NoneValue)
        /\ san_value.kind = "num" => san_result = Accepted(san_value)
        /\ san_value.kind = "str" =>
            IF NonNulCount(san_value.runs) > MAX_PARAM_LENGTH
            THEN san_result.status = "validation_error"
            ELSE san_result = Accepted(StrValue(NonNulRuns(san_value.runs)))

C8_Witness ==
    /\ Sanitized
    /\ san_value = StrValue(<<[ch |-> "a", n |-> MAX_PARAM_LENGTH],
                              [ch |-> NUL, n |-> 1]>>)
    /\ san_result.status = "ok"

\* C6: in execute_query of each adapter, a failure of the gate or of the
\* sanitizer is raised while no request has been made to the driver and no
\* connection is held or checked out, and raising it changes nothing of the
\* pool.
C6_GateFailsBeforeDriver ==
    [][(pc \in {"validate", "sanitize"} /\ outcome'.status = "error") =>
          /\ driver_log = <<>> /\ driver_log' = <<>>
          /\ ~conn /\ ~conn'
          /\ checked_out = 0 /\ checked_out' = 0
          /\ pool' = pool]_vars

C6_Witness ==
    /\ pc = "idle"
    /\ call.op = "execute_query"
    /\ driver_type = "postgresql"
    /\ pool > 0
    /\ outcome.status = "error"
    /\ outcome.stage = "sanitize"
    /\ outcome.error.category = "validation_error"
    /\ driver_log = <<>>

\* C7: on every adapter with read_only set, the caller's statement reaches
\* the driver only after a read-only mark was sent on the same connection.
C7_MarkedBeforeStatement ==
    \A i \in DOMAIN driver_log :
        (read_only /\ driver_log[i].stmt = "user") =>
            \E j \in 1..(i - 1) : driver_log[j].stmt = "read_only_mark"

\* C9: every parameter list handed to the driver, in execute_query, in
\* get_tables and in get_table_schema, is one the Parameter Sanitizer has
\* produced: sanitizing it again accepts it and changes nothing.
C9_DriverParamsSanitized ==
    \A i \in DOMAIN driver_log :
        LET ps == driver_log[i].params
        IN  ps.given => _sanitize_parameters(ps) = [status |-> "ok", value |-> ps]

\* C10: on the PostgreSQL, MySQL and SQLite adapters a connection is out of
\* the pool (or open) only while a get_connection scope holds it, and once
\* the call has ended, with a result or with an exception, none is.
C10_ScopeReturnsConnection ==
    driver_type # "db2" =>
        /\ checked_out = (IF conn THEN 1 ELSE 0)
        /\ pc = "idle" => (~conn /\ checked_out = 0)

C10_Witness ==
    /\ pc = "idle"
    /\ driver_type = "mysql"
    /\ outcome.status = "error"
    /\ outcome.stage = "scope"
    /\ Len(driver_log) = 3
    /\ driver_log[1].api = "acquire"
    /\ driver_log[2].stmt = "user"
    /\ driver_log[3].api = "release"
    /\ checked_out = 0

\* the registered names, and whether lifespan has ended
Registered == {adapters[k] : k \in 1..Len(adapters)}
LifespanOver == life_pc \in {"done", "failed", "crashed"}

\* C11: during shutdown close() is called exactly once on every registered
\* adapter, in the order of the registry; a close() that raises is logged,
\* the exception does not leave the loop, and the adapters after it are
\* closed all the same.
C11_ShutdownClosesEach ==
    /\ life_pc # "shutdown_failed"
    /\ life_pc = "shutdown" =>
         \A k \in 1..Len(adapters) :
            close_calls[adapters[k]] = (IF k < life_i THEN 1 ELSE 0)
    /\ life_pc = "done" => \A n \in Registered : close_calls[n] = 1
    /\ \A n \in logged : n \in Registered /\ close_calls[n] = 1

C11_Witness ==
    /\ life_pc = "done"
    /\ adapters = <<1, 2>>
    /\ logged = {1}
    /\ close_calls[1] = 1
    /\ close_calls[2] = 1

\* C12: once lifespan has ended, by a normal shutdown, by a failure during
\* start-up or by an exception of the running server, every adapter whose
\* initialize() returned has had close() called exactly once.
C12_InitializedAreClosed ==
    LifespanOver => \A n \in initialized_ok : close_calls[n] = 1

\* C13: at every moment every name in the registry is one whose adapter's
\* initialize() has returned, and the adapter whose initialize() raised is
\* not in it.
C13_RegistryInitialized ==
    /\ Registered \subseteq initialized_ok
    /\ life_pc = "failed" => life_i \notin Registered

C13_Witness ==
    /\ life_pc = "failed"
    /\ life_i = 2
    /\ config[2] = [type |-> "postgresql", valid |-> TRUE]
    /\ adapters = <<1>>
    /\ initialized_ok = {1}

\* the call named op has ended
Ended(op) == pc = "idle" /\ call.op = op /\ outcome # NoOutcome

\* C14: on each of the four adapters, a get_table_schema whose catalog
\* request found no column for the table gives its caller an error of
\* category not-found.
C14_NoColumnsIsNotFound ==
    [][(/\ pc = "exit"
        /\ call.op = "get_table_schema"
        /\ err = NotFoundError({}))
          => outcome'.error.category = "not_found_error"]_vars

\* C15: on each of the four adapters test_connection never raises to its
\* caller: whatever fails while the connection is acquired or a probe
\* statement runs, it returns a result with connected = false.
C15_TestConnectionNeverRaises ==
    Ended("test_connection") =>
        /\ outcome.status = "ok"
        /\ result.kind = "status"

\* C16: get_schemas of SQLite returns an empty sequence, and get_schemas of
\* PostgreSQL, MySQL and DB2 returns an empty sequence, not an error, when
\* the backend refuses the catalog request for the schema names.
C16_GetSchemasFallsBack ==
    Ended("get_schemas") =>
        /\ driver_type = "sqlite" => (outcome.status = "ok" /\ result = Rows(<<>>))
        /\ (\E i \in DOMAIN driver_log : driver_log[i].api = "catalog")
              => outcome.status = "ok"

\* C17: initialize, execute_query, get_tables, get_table_schema and
\* get_schemas of every adapter either return or raise a DatabaseError: no
\* other exception leaves the adapter.
C17_OnlyClassifiedErrors ==
    (/\ pc = "idle"
     /\ call.op \in {"initialize", "execute_query", "get_tables",
                     "get_table_schema", "get_schemas"}
     /\ outcome.status = "error")
        => outcome.error.kind = "database"

\* C18: in each of the six tools, an exception that is not a DatabaseError
\* raised while the call is served does not leave the tool: the tool
\* returns success = false with category unknown.
C18_UnexpectedFailureReported ==
    (tool_pc = "idle" /\ tool_call.raised.kind = "python")
        => tool_result = Failure("unknown_error")

\* the spellings of a phrase p in the error texts, and whether the text
\* holds p in some spelling
Spellings(p) ==
    {p} \cup (CASE p = "connection refused" -> {"Connection refused"}
               [] p = "access denied" -> {"Access denied"}
               [] p = "unknown database" -> {"Unknown database"}
               [] p = "can't connect" -> {"Can't connect"}
               [] p = "sql0204n" -> {"SQL0204N"}
               [] p = "sql30081n" -> {"SQL30081N"}
               [] p = "sql30082n" -> {"SQL30082N"}
               [] OTHER -> {})
Has(p) == map_error \cap Spellings(p) # {}
Classified == map_result # NoError
Is(c, r) == map_result.kind = "database" /\ map_result.category = c /\ map_result.recoverable = r
MatchesOwnTable ==
    \/ map_driver = "postgresql"
          /\ (Has("connection refused") \/ Has("authentication failed") \/ Has("does not exist"))
    \/ map_driver = "mysql"
          /\ (Has("access denied") \/ Has("unknown database")
                \/ Has("can't connect") \/ Has("connection refused"))
    \/ map_driver = "sqlite"
          /\ (Has("no such table") \/ Has("database is locked")
                \/ Has("unable to open database file"))
    \/ map_driver = "db2"
          /\ (Has("sql0204n") \/ Has("sql30081n") \/ Has("sql30082n"))

\* C19 as stated: each listed phrase decides the category of every text of
\* its backend that holds it, whatever else the text holds.
C19_EachPhraseDecides ==
    Classified =>
        /\ Is("connection_error", TRUE) \/ Is("authentication_error", FALSE)
             \/ Is("not_found_error", FALSE) \/ Is("query_error", FALSE)
        /\ (map_driver = "postgresql" /\ Has("connection refused"))
              => Is("connection_error", TRUE)
        /\ (map_driver = "mysql" /\ Has("access denied"))
              => Is("authentication_error", FALSE)
        /\ (\/ map_driver = "postgresql" /\ Has("does not exist")
            \/ map_driver = "mysql" /\ Has("unknown database")
            \/ map_driver = "sqlite" /\ Has("no such table")
            \/ map_driver = "db2" /\ Has("sql0204n"))
              => Is("not_found_error", FALSE)
        /\ (map_driver = "sqlite" /\ Has("database is locked"))
              => Is("connection_error", TRUE)
        /\ ~MatchesOwnTable => Is("query_error", FALSE)

\* C19 (amended): map_driver_error returns a DatabaseError for every text
\* and every driver tag, matching without regard to letter case, and the
\* first pattern of the backend's table that the text holds decides: on
\* PostgreSQL 'connection refused' gives connection/recoverable and 'does
\* not exist' gives not-found unless the text also holds 'connection
\* refused' or 'authentication failed'; on MySQL 'access denied' gives
\* authentication and 'unknown database' gives not-found unless the text
\* also holds 'access denied'; on SQLite 'no such table' gives not-found
\* and 'database is locked' gives connection/recoverable unless the text
\* also holds 'no such table'; on DB2 SQL0204N gives not-found; a text that
\* holds no pattern of its own backend, and every text under an unknown
\* tag, gives query/not recoverable.
C19_FirstPatternDecides ==
    Classified =>
        /\ Is("connection_error", TRUE) \/ Is("authentication_error", FALSE)
             \/ Is("not_found_error", FALSE) \/ Is("query_error", FALSE)
        /\ (map_driver = "postgresql" /\ Has("connection refused"))
              => Is("connection_error", TRUE)
        /\ (map_driver = "mysql" /\ Has("access denied"))
              => Is("authentication_error", FALSE)
        /\ (\/ /\ map_driver = "postgresql" /\ Has("does not exist")
               /\ ~Has("connection refused") /\ ~Has("authentication failed")
            \/ map_driver = "mysql" /\ Has("unknown database") /\ ~Has("access denied")
            \/ map_driver = "sqlite" /\ Has("no such table")
            \/ map_driver = "db2" /\ Has("sql0204n"))
              => Is("not_found_error", FALSE)
        /\ (map_driver = "sqlite" /\ Has("database is locked") /\ ~Has("no such table"))
              => Is("connection_error", TRUE)
        /\ ~MatchesOwnTable => Is("query_error", FALSE)

C19_Witness ==
    /\ Classified
    /\ map_driver = "db2"
    /\ map_error = {"SQL0204N", "syntax error"}
    /\ Is("not_found_error", FALSE)

\* C20: every value of every row that execute_query of any adapter returns
\* is an output of serialize_value, and none is a Decimal, a date, a time,
\* a datetime, bytes or a memoryview.
C20_RowsSerialized ==
    (call.op = "execute_query" /\ result.kind = "rows") =>
        \A i \in 1..Len(result.rows) : \A j \in 1..Len(result.rows[i]) :
            LET v == result.rows[i][j].val
            IN  /\ \E raw \in RawValues : v = serialize_value(raw)
                /\ v.type \notin {"Decimal", "date", "time", "datetime",
                                  "bytes", "memoryview"}

C20_Witness ==
    /\ Ended("execute_query")
    /\ outcome.status = "ok"
    /\ driver_type = "db2"
    /\ result = Rows(<<<<Item("c1", Value("float", "12.5"))>>>>)

\* the statement get_sample_data has handed to adapter.execute_query
SampleQuerySent == tool_call.tool = "get_sample_data" /\ tool_call.query # <<>>

\* C21: for every table name, with or without a schema name, the statement
\* get_sample_data hands to adapter.execute_query is 'SELECT * FROM <name>
\* LIMIT %s' with <name> the quote_identifier of the table name, preceded by
\* the quote_identifier of the schema name and a dot when a schema is given,
\* and its parameters are the tuple (limit,).
C21_SampleQueryQuoted ==
    SampleQuerySent =>
        LET name == IF tool_call.schema # <<>>
                    THEN quote_identifier(tool_call.schema) \o <<".">>
                            \o quote_identifier(tool_call.table)
                    ELSE quote_identifier(tool_call.table)
        IN  /\ tool_call.query =
                  <<"SELECT", " ", "*", " ", "FROM", " ">> \o name
                      \o <<" ", "LIMIT", " ", "%s">>
            /\ tool_call.params = Params(<<NumValue(tool_call.limit)>>)

\* a get_connection scope of task t is open
InScope(t) == tasks[t].pc \in {"round_trip", "in_scope", "release"}

C23_OtherTaskCanStart ==
    \A t \in DOMAIN tasks : \A u \in DOMAIN tasks :
        (/\ tasks[t].kind = "execute_query"
         /\ tasks[t].pc \in {"acquire", "round_trip", "release"}
         /\ tasks[u].obj # tasks[t].obj
         /\ tasks[u].pc = "new")
            => ENABLED TaskStart(u)

\* C24: at shutdown the adapters are closed in the reverse of the order of
\* their registration: when close() is called on a registered adapter,
\* close() has already been called on every adapter registered after it.
C24_ClosedInReverse ==
    [][\A a \in 1..Len(adapters) : \A b \in (a + 1)..Len(adapters) :
          close_calls'[adapters[a]] > close_calls[adapters[a]]
              => close_calls[adapters[b]] >= 1]_vars

\* a banned keyword, in any letter case, with a blank or the end of the
\* text on either side
SpaceDelimitedKeywordAt(q, i) ==
    /\ Upper(q[i]) \in DangerousSet
    /\ (i = 1 \/ q[i - 1] = " ")
    /\ (i = Len(q) \/ q[i + 1] = " ")

QueryToolReturned ==
    tool_pc = "idle" /\ tool_call.tool = "execute_query" /\ tool_result.success

\* C26: for every integer limit, zero and negative ones included, and every
\* list of rows of the adapter, the execute_query tool returns at most
\* min(limit, 1000) rows and never more than 1000; the rows are a prefix of
\* the adapter's list, row_count is their number, and truncated is true
\* exactly when a row was dropped.
C26_RowsLimited ==
    QueryToolReturned =>
        LET full == tool_call.rows
            got == tool_result.rows
            limit == tool_call.limit
        IN  /\ Len(got) <= (IF limit < 1000 THEN limit ELSE 1000)
            /\ Len(got) <= 1000
            /\ Len(got) <= Len(full) /\ got = SubSeq(full, 1, Len(got))
            /\ tool_result.row_count = Len(got)
            /\ tool_result.truncated <=> Len(got) < Len(full)

\* C27: on an adapter with read_only = false, the rows written by an
\* INSERT, UPDATE or DELETE that execute_query ran without error are
\* committed: they are in the database once the call has ended.
C27_WriteCommitted ==
    (/\ Ended("execute_query")
     /\ outcome.status = "ok"
     /\ ~read_only
     /\ get_type(parse(call.query)[1]) \in {"INSERT", "UPDATE", "DELETE"})
        => written = "committed"

\* C28: every value in a row that execute_query returns stands under the
\* name of a column it was read from, also when the backend's column list
\* names a column twice (a, b, a, c), on each of the four adapters.
C28_ValueUnderOwnColumn ==
    (call.op = "execute_query" /\ result.kind = "rows") =>
        \A i \in 1..Len(result.rows) : \A k \in 1..Len(result.rows[i]) :
            LET item == result.rows[i][k]
            IN  \E f \in FetchedRows : \E r \in 1..Len(f.rows) :
                    \E j \in 1..Len(f.columns) :
                        /\ f.columns[j] = item.col
                        /\ item.val = serialize_value(f.rows[r][j])

\* C29: an error that is already a DatabaseError leaves the adapter with the
\* category and the recoverable flag it was raised with: the ConnectionError
\* of an uninitialized pool at the entry of get_connection, and a
\* DatabaseError raised inside the scope (the NotFoundError of
\* get_table_schema), on every adapter, DB2 included.
C29_ClassifiedOnce ==
    [][/\ (pc = "acquire" /\ pc' = "idle" /\ outcome'.status = "error")
            => /\ outcome'.error.category = ConnectionError({}).category
               /\ outcome'.error.recoverable = ConnectionError({}).recoverable
       /\ (pc = "exit" /\ err.kind = "database" /\ outcome'.status = "error")
            => /\ outcome'.error.category = err.category
               /\ outcome'.error.recoverable = err.recoverable]_vars

\* C30: when initialize() has raised, the adapter holds no open connection:
\* the connections DB2Adapter.initialize opened before the failure are closed
\* by the time the error reaches the caller.
C30_FailedInitializeHoldsNone ==
    (Ended("initialize") /\ outcome.status = "error") => pool = 0

====
